---- MODULE Spec2Model ----
(***************************************************************************)
(* Session / request lifecycle manager of shai-http.                       *)
(*                                                                         *)
(*   SessionManager      src/shai-http/src/session/manager.rs              *)
(*   RequestLifecycle    src/shai-http/src/session/lifecycle.rs            *)
(*   DisconnectionHandler src/shai-http/src/lib.rs                         *)
(*                                                                         *)
(* Every tokio::sync::Mutex is a FIFO queue of waiters whose head holds    *)
(* the lock.  Every task spawned with tokio::spawn is a process of its     *)
(* own: the watcher of an agent, the release task of a guard, the cancel   *)
(* task of a stream wrapper.                                               *)
(***************************************************************************)
EXTENDS Naturals, Integers, Sequences, FiniteSets, TLC

\* ------------------------------------------------------------------ bounds
MaxReqs == 2      \* calls of the manager in flight at once
MaxCalls == 3     \* calls of the manager (handle_request or cancel_session) in all
NumIds == 2       \* session identifiers a caller may name
MaxCap == 1       \* largest max_sessions = Some(n) a manager is configured with
MaxHandlers == 2  \* response streams wrapped in a DisconnectionHandler
MaxItems == 2     \* events a response stream yields before it ends
MaxFiles == 1     \* session identifiers that SessionPersist is called with
MaxSavers == 2    \* calls of save_session
MaxTrace == 2     \* longest trace save_session is called with
MaxTime == 1      \* latest instant Utc::now() returns
MaxSlots == 3     \* calls in flight at once where the registry mutex is followed

Reqs == 1..MaxReqs
Slots == 1..MaxSlots
NamedIds == 1..NumIds
Ids == 1..(NumIds + MaxCalls)
Agents == 1..MaxCalls
Handlers == 1..MaxHandlers
Savers == 1..MaxSavers
FileIds == 1..MaxFiles
\* Option<T>: None, Some(x)
None == << >>
Some(x) == <<x>>

\* Mutant: the generated identifier is one that callers name.
FreshIdNamed(n) == 1

\* Uuid::new_v4() in the n-th call: an identifier no caller names and no
\* other call generates.
FreshId(n) == NumIds + n

\* The session folder: <session_id>.json of every identifier and the
\* <uuid>.tmp of every call of save_session.
Final(sid) == <<"final", sid>>
Temp(s) == <<"tmp", s>>
Paths == {Final(sid) : sid \in FileIds} \cup {Temp(s) : s \in Savers}

\* No load_session, no delete_session has just returned.
NoLoad == [sid |-> 0, err |-> "none", data |-> None]
NoDelete == [sid |-> 0, did |-> "none"]

VARIABLES
    maxSessions,    \* SessionManager.max_sessions: None or a number
    ephemeral,      \* SessionManager.ephemeral
    allowCreation,  \* SessionManager.allow_creation
    sessions,       \* SessionManager.sessions: id -> agent of the Session, 0 = no entry
    regQueue,       \* waiters of the registry mutex, the head holds it
    nextAgent,      \* agent instances started so far
    agentState,     \* "none" | "running" | "exited" (run loop returned) | "removed"
    agentSid,       \* sid_for_cleanup of the agent task
    agentEph,       \* AgentSession.ephemeral
    cancelCount,    \* cancel() calls the agent received
    termCount,      \* terminate() calls the agent received
    removedEntry,   \* what the watcher's remove() took out of the map
    agentBy,        \* the call whose create_session started the agent
    leaseQ,         \* waiters of the controller mutex of each agent
    calls,          \* calls of the manager made so far
    named,          \* the highest identifier a caller has named so far
    pc,             \* position of each call in flight
    op,             \* "handle" (handle_request) | "cancel" (cancel_session)
    reqSid,         \* the session_id the call works with
    result,         \* what the call returned
    retSid,         \* the session_id handle_request returned
    reqAgent,       \* the agent instance of the Session the call got
    startedAbsent,  \* the id was not registered when handle_request started
    rivals,         \* handle_request calls with the same id, started like this one
                    \* while the id was not registered, in flight when it started
    guard,          \* RequestLifecycle of the request: "none" | "live" | "dropped"
    variant,        \* "Background" | "Ephemeral" | "none"
    relBg,          \* times the Background arm of Drop ran for the guard
    relEph,         \* times the Ephemeral arm of Drop ran for the guard
    relProg,        \* what the spawned release task has still to do
    persistEnabled, \* SHAI_SESSION_PERSIST_ENABLE, as is_enabled() reads it
    clock,          \* Utc::now()
    disk,           \* the session folder: path -> None (no file) or Some(content)
    svPc,           \* position of each call of save_session
    svSid,          \* its session_id
    svTrace,        \* its trace
    svSeen,         \* what it found at file_path: None or Some(content)
    svData,         \* its session_data
    svRes,          \* what it returned: "none" | "ok" | "err"
    loadRes,        \* what the load_session that has just returned gave
    delRes,         \* what the delete_session that has just returned did
    reqName,        \* the agent_name the call carries: None or Some(name)
    sidGiven,       \* the session_id the call carries is Some(..)
    agentProfile,   \* the name AgentBuilder::create built the agent from
    counted,        \* what session_count returned: None or Some(n)
    hState,         \* DisconnectionHandler: "none" | "open" | "dropped"
    hItems,         \* events its inner stream still yields before Ready(None)
    hCtl,           \* DisconnectionHandler.controller: None or Some(agent)
    hOrig,          \* the controller the handler was built with
    completed,      \* DisconnectionHandler.completed
    hSpawned,       \* cancel tasks spawned by the handler's drop
    hPending,       \* controllers moved into cancel tasks that have not run yet
    hCancelled      \* the agents the cancel tasks of the handler called cancel() on

cfgVars == <<maxSessions, ephemeral, allowCreation>>
regVars == <<sessions, regQueue>>
agentVars == <<nextAgent, agentState, agentSid, agentEph, removedEntry, agentBy>>
ctlVars == <<cancelCount, termCount>>
callVars == <<calls, named, pc, op, reqSid, result, retSid, reqAgent, startedAbsent, rivals>>
guardVars == <<guard, variant, relBg, relEph, relProg>>
saverVars == <<svPc, svSid, svTrace, svSeen, svData, svRes>>
persistVars == <<persistEnabled, clock, disk, saverVars, loadRes, delRes>>
nameVars == <<reqName, sidGiven, agentProfile>>
streamVars == <<hState, hItems, hCtl, hOrig, completed, hSpawned, hPending, hCancelled>>
vars == <<cfgVars, regVars, agentVars, ctlVars, leaseQ, callVars, guardVars, streamVars,
          persistVars, nameVars, counted>>

Registered == {s \in Ids : sessions[s] # 0}

Req(r) == <<"req", r>>
Watch(a) == <<"watch", a>>
HoldsRegistry(w) == regQueue # << >> /\ Head(regQueue) = w

\* ------------------------------------------------------------- Init
Init ==
    /\ maxSessions \in {None} \cup {Some(n) : n \in 0..MaxCap}
    /\ ephemeral \in BOOLEAN
    /\ allowCreation = TRUE
    /\ sessions = [s \in Ids |-> 0]
    /\ regQueue = << >>
    /\ nextAgent = 0
    /\ agentState = [a \in Agents |-> "none"]
    /\ agentSid = [a \in Agents |-> 0]
    /\ agentEph = [a \in Agents |-> FALSE]
    /\ cancelCount = [a \in Agents |-> 0]
    /\ termCount = [a \in Agents |-> 0]
    /\ removedEntry = [a \in Agents |-> 0]
    /\ agentBy = [a \in Agents |-> 0]
    /\ leaseQ = [a \in Agents |-> << >>]
    /\ calls = 0
    /\ named = 0
    /\ pc = [r \in Slots |-> "idle"]
    /\ op = [r \in Slots |-> "none"]
    /\ reqSid = [r \in Slots |-> 0]
    /\ result = [r \in Slots |-> "none"]
    /\ retSid = [r \in Slots |-> 0]
    /\ reqAgent = [r \in Slots |-> 0]
    /\ startedAbsent = [r \in Slots |-> FALSE]
    /\ rivals = [r \in Slots |-> {}]
    /\ guard = [r \in Slots |-> "none"]
    /\ variant = [r \in Slots |-> "none"]
    /\ relBg = [r \in Slots |-> 0]
    /\ relEph = [r \in Slots |-> 0]
    /\ relProg = [r \in Slots |-> << >>]
    /\ persistEnabled = TRUE
    /\ clock = 0
    /\ disk = [p \in Paths |-> None]
    /\ svPc = [s \in Savers |-> "idle"]
    /\ svSid = [s \in Savers |-> 0]
    /\ svTrace = [s \in Savers |-> 0]
    /\ svSeen = [s \in Savers |-> None]
    /\ svData = [s \in Savers |-> None]
    /\ svRes = [s \in Savers |-> "none"]
    /\ loadRes = NoLoad
    /\ delRes = NoDelete
    /\ reqName = [r \in Slots |-> None]
    /\ sidGiven = [r \in Slots |-> FALSE]
    /\ agentProfile = [a \in Agents |-> None]
    /\ counted = [r \in Slots |-> None]
    /\ hState = [h \in Handlers |-> "none"]
    /\ hItems = [h \in Handlers |-> 0]
    /\ hCtl = [h \in Handlers |-> None]
    /\ hOrig = [h \in Handlers |-> None]
    /\ completed = [h \in Handlers |-> FALSE]
    /\ hSpawned = [h \in Handlers |-> 0]
    /\ hPending = [h \in Handlers |-> << >>]
    /\ hCancelled = [h \in Handlers |-> << >>]

\* ------------------------------------------------- SessionManager
\* A call enters the manager.  The slots of the calls in flight are
\* interchangeable, so a call takes the first free one.
CanEnter(r) ==
    /\ calls < MaxCalls
    /\ pc[r] = "idle"
    /\ \A q \in Slots : q < r => pc[q] # "idle"

\* Identifiers are interchangeable too: a caller names an identifier already
\* named or the next one.
CanName(i) == i <= named + 1
Naming(i) == IF i > named THEN i ELSE named

\* A &self borrow of the manager is alive while a call is inside it.
InManager(r) ==
    pc[r] \in {"lock", "building", "insert", "attach", "clock", "cancelling", "cntlock"}

\* The handle_request calls in flight that carry sid and started while sid was
\* not registered, when sid is not registered now either.
StartedAlike(sid) ==
    IF sessions[sid] # 0 THEN {}
    ELSE {q \in Slots : InManager(q) /\ op[q] = "handle" /\ reqSid[q] = sid
                        /\ startedAbsent[q]}

\* handle_request up to self.sessions.lock(): the id is the given one or a new
\* uuid, and the call joins the waiters of the registry mutex.
HandleRequest(r, sidOpt, name) ==
    /\ CanEnter(r)
    /\ reqName' = [reqName EXCEPT ![r] = name]
    /\ sidGiven' = [sidGiven EXCEPT ![r] = sidOpt # None]
    /\ sidOpt # None => CanName(sidOpt[1])
    /\ op' = [op EXCEPT ![r] = "handle"]
    /\ calls' = calls + 1
    /\ named' = IF sidOpt = None THEN named ELSE Naming(sidOpt[1])
    /\ reqSid' = [reqSid EXCEPT ![r] = IF sidOpt = None THEN FreshId(calls') ELSE sidOpt[1]]
    /\ startedAbsent' = [startedAbsent EXCEPT ![r] = sessions[reqSid'[r]] = 0]
    /\ rivals' = [rivals EXCEPT ![r] = StartedAlike(reqSid'[r])]
    /\ regQueue' = Append(regQueue, Req(r))
    /\ pc' = [pc EXCEPT ![r] = "lock"]
    /\ UNCHANGED <<cfgVars, sessions, agentVars, ctlVars, leaseQ, result, retSid,
                   reqAgent, guardVars, streamVars, persistVars, agentProfile, counted>>

\* Mutant: the lookup of the existing session is missing.
ResolveOutcomeNoLookup(present, allow, max, len) ==
    IF ~allow THEN "disabled"
    ELSE IF max # None /\ len >= max[1] THEN "capacity"
    ELSE "create"

\* Mutant: the limit is compared with > instead of >=.
ResolveOutcomeOffByOne(present, allow, max, len) ==
    IF present THEN "existing"
    ELSE IF ~allow THEN "disabled"
    ELSE IF max # None /\ len > max[1] THEN "capacity"
    ELSE "create"

\* Mutant: the limit is checked only while creation is disabled.
ResolveOutcomeNoLimit(present, allow, max, len) ==
    IF present THEN "existing"
    ELSE IF ~allow THEN (IF max # None /\ len >= max[1] THEN "capacity" ELSE "disabled")
    ELSE "create"

\* Mutant: the limit is checked before the creation gate.
ResolveOutcomeLimitFirst(present, allow, max, len) ==
    IF present THEN "existing"
    ELSE IF max # None /\ len >= max[1] THEN "capacity"
    ELSE IF ~allow THEN "disabled"
    ELSE "create"

\* get_or_create_session between the lock and the call of create_session.
ResolveOutcome(present, allow, max, len) ==
    IF present THEN "existing"
    ELSE IF ~allow THEN "disabled"
    ELSE IF max # None /\ len >= max[1] THEN "capacity"
    ELSE "create"

\* Mutant: the registry guard of a call that found its Session lives on while
\* the call waits for the controller mutex.
ResolveKeepsRegistry(r) ==
    /\ pc[r] = "lock"
    /\ HoldsRegistry(Req(r))
    /\ LET sid == reqSid[r]
           out == ResolveOutcome(sessions[sid] # 0, allowCreation, maxSessions,
                                 Cardinality(Registered))
       IN  CASE out = "existing" ->
                  /\ reqAgent' = [reqAgent EXCEPT ![r] = sessions[sid]]
                  /\ leaseQ' = [leaseQ EXCEPT ![sessions[sid]] = Append(@, r)]
                  /\ pc' = [pc EXCEPT ![r] = "attach"]
                  /\ UNCHANGED <<result, regQueue>>
            [] out \in {"disabled", "capacity"} ->
                  /\ result' = [result EXCEPT ![r] = out]
                  /\ regQueue' = Tail(regQueue)
                  /\ pc' = [pc EXCEPT ![r] = "done"]
                  /\ UNCHANGED <<reqAgent, leaseQ>>
            [] OTHER ->
                  /\ pc' = [pc EXCEPT ![r] = "building"]
                  /\ UNCHANGED <<result, regQueue, reqAgent, leaseQ>>
    /\ UNCHANGED <<calls, named, startedAbsent, rivals, cfgVars, sessions, agentVars, ctlVars, op, reqSid, retSid,
                   guardVars, streamVars, persistVars, nameVars, counted>>

Resolve(r) ==
    /\ pc[r] = "lock"
    /\ HoldsRegistry(Req(r))
    /\ LET sid == reqSid[r]
           out == ResolveOutcome(sessions[sid] # 0, allowCreation, maxSessions,
                                 Cardinality(Registered))
       IN  CASE out = "existing" ->
                  \* return Ok(session.clone()); AgentSession::handle_request
                  \* asks for the controller mutex
                  /\ reqAgent' = [reqAgent EXCEPT ![r] = sessions[sid]]
                  /\ regQueue' = Tail(regQueue)
                  /\ leaseQ' = [leaseQ EXCEPT ![sessions[sid]] = Append(@, r)]
                  /\ pc' = [pc EXCEPT ![r] = "attach"]
                  /\ UNCHANGED result
            [] out \in {"disabled", "capacity"} ->
                  /\ result' = [result EXCEPT ![r] = out]
                  /\ regQueue' = Tail(regQueue)
                  /\ pc' = [pc EXCEPT ![r] = "done"]
                  /\ UNCHANGED <<reqAgent, leaseQ>>
            [] OTHER ->
                  \* create_session(..).await with the registry still locked
                  /\ pc' = [pc EXCEPT ![r] = "building"]
                  /\ UNCHANGED <<result, regQueue, reqAgent, leaseQ>>
    /\ UNCHANGED <<calls, named, startedAbsent, rivals, cfgVars, sessions, agentVars, ctlVars, op, reqSid, retSid,
                   guardVars, streamVars, persistVars, nameVars, counted>>

\* create_session: agent_name.clone().filter(|name| name != "default").
BuilderName(name) == IF name = Some("default") THEN None ELSE name

\* create_session: AgentBuilder::create(..).await succeeded, the agent task is
\* spawned (it runs from now on) and the AgentSession is built.  The registry
\* mutex is still held by the caller.
CreateSessionOk(r) ==
    /\ pc[r] = "building"
    /\ LET a == nextAgent + 1
       IN  /\ nextAgent' = a
           /\ agentState' = [agentState EXCEPT ![a] = "running"]
           /\ agentSid' = [agentSid EXCEPT ![a] = reqSid[r]]
           /\ agentEph' = [agentEph EXCEPT ![a] = ephemeral]
           /\ agentBy' = [agentBy EXCEPT ![a] = r]
           /\ reqAgent' = [reqAgent EXCEPT ![r] = a]
           /\ agentProfile' = [agentProfile EXCEPT ![a] = BuilderName(reqName[r])]
    /\ pc' = [pc EXCEPT ![r] = "insert"]
    /\ UNCHANGED <<cfgVars, regVars, removedEntry, ctlVars, leaseQ, op, reqSid,
                   result, retSid, startedAbsent, rivals, calls, named, guardVars,
                   streamVars, persistVars, reqName, sidGiven, counted>>

\* Mutant: the error is returned with the registry guard still alive.
CreateSessionErrKeepsLock(r) ==
    /\ pc[r] = "building"
    /\ result' = [result EXCEPT ![r] = "agentfail"]
    /\ pc' = [pc EXCEPT ![r] = "done"]
    /\ UNCHANGED <<calls, named, startedAbsent, rivals, cfgVars, regVars, agentVars, ctlVars, leaseQ,
                   op, reqSid, retSid, reqAgent, guardVars, streamVars, persistVars, nameVars, counted>>

\* create_session: AgentBuilder::create(..).await failed; the ? operators of
\* create_session and of get_or_create_session return the error, which drops
\* the registry guard.
CreateSessionErr(r) ==
    /\ pc[r] = "building"
    /\ result' = [result EXCEPT ![r] = "agentfail"]
    /\ regQueue' = Tail(regQueue)
    /\ pc' = [pc EXCEPT ![r] = "done"]
    /\ UNCHANGED <<calls, named, startedAbsent, rivals, cfgVars, sessions, agentVars, ctlVars, leaseQ, op, reqSid,
                   retSid, reqAgent, guardVars, streamVars, persistVars, nameVars, counted>>

\* sessions.insert(..); Ok(session): the registry guard is dropped and
\* AgentSession::handle_request asks for the controller mutex.
InsertSession(r) ==
    /\ pc[r] = "insert"
    /\ sessions' = [sessions EXCEPT ![reqSid[r]] = reqAgent[r]]
    /\ regQueue' = Tail(regQueue)
    /\ leaseQ' = [leaseQ EXCEPT ![reqAgent[r]] = Append(@, r)]
    /\ pc' = [pc EXCEPT ![r] = "attach"]
    /\ UNCHANGED <<calls, named, startedAbsent, rivals, cfgVars, agentVars, ctlVars, op, reqSid, result, retSid,
                   reqAgent, guardVars, streamVars, persistVars, nameVars, counted>>

\* Mutant: the agent task removes the Session while agent.run() is going on.
AgentExitRemovesFirst(a) ==
    /\ agentState[a] = "running"
    /\ sessions[agentSid[a]] = a
    /\ sessions' = [sessions EXCEPT ![agentSid[a]] = 0]
    /\ UNCHANGED <<cfgVars, regQueue, agentVars, ctlVars, leaseQ, callVars, guardVars,
                   streamVars, persistVars, nameVars, counted>>

\* The agent task: agent.run() returned (Ok or Err), the task asks for the
\* registry mutex.
AgentExit(a) ==
    /\ agentState[a] = "running"
    /\ agentState' = [agentState EXCEPT ![a] = "exited"]
    /\ regQueue' = Append(regQueue, Watch(a))
    /\ UNCHANGED <<cfgVars, sessions, nextAgent, agentSid, agentEph, removedEntry, agentBy,
                   ctlVars, leaseQ, callVars, guardVars, streamVars, persistVars, nameVars, counted>>

\* Mutant: the agent task removes the key without the registry mutex.
WatcherRemoveUnlocked(a) ==
    /\ agentState[a] = "exited"
    /\ removedEntry' = [removedEntry EXCEPT ![a] = sessions[agentSid[a]]]
    /\ sessions' = [sessions EXCEPT ![agentSid[a]] = 0]
    /\ regQueue' = SelectSeq(regQueue, LAMBDA w : w # Watch(a))
    /\ agentState' = [agentState EXCEPT ![a] = "removed"]
    /\ UNCHANGED <<cfgVars, nextAgent, agentSid, agentEph, agentBy, ctlVars, leaseQ,
                   callVars, guardVars, streamVars, persistVars, nameVars, counted>>

\* Mutant: the agent task uses try_lock and gives up when the registry is busy.
WatcherRemoveTryLock(a) ==
    /\ agentState[a] = "exited"
    /\ IF HoldsRegistry(Watch(a))
         THEN /\ removedEntry' = [removedEntry EXCEPT ![a] = sessions[agentSid[a]]]
              /\ sessions' = [sessions EXCEPT ![agentSid[a]] = 0]
         ELSE UNCHANGED <<removedEntry, sessions>>
    /\ regQueue' = SelectSeq(regQueue, LAMBDA w : w # Watch(a))
    /\ agentState' = [agentState EXCEPT ![a] = "removed"]
    /\ UNCHANGED <<cfgVars, nextAgent, agentSid, agentEph, agentBy, ctlVars, leaseQ,
                   callVars, guardVars, streamVars, persistVars, nameVars, counted>>

\* The agent task: sessions_for_cleanup.lock().await.remove(&sid_for_cleanup).
WatcherRemove(a) ==
    /\ agentState[a] = "exited"
    /\ HoldsRegistry(Watch(a))
    /\ removedEntry' = [removedEntry EXCEPT ![a] = sessions[agentSid[a]]]
    /\ sessions' = [sessions EXCEPT ![agentSid[a]] = 0]
    /\ regQueue' = Tail(regQueue)
    /\ agentState' = [agentState EXCEPT ![a] = "removed"]
    /\ UNCHANGED <<cfgVars, nextAgent, agentSid, agentEph, agentBy, ctlVars, leaseQ,
                   callVars, guardVars, streamVars, persistVars, nameVars, counted>>

\* set_allow_creation(&mut self, allow): no other borrow of the manager.
SetAllowCreation(allow) ==
    /\ \A r \in Slots : ~InManager(r)
    /\ allowCreation' = allow
    /\ UNCHANGED <<maxSessions, ephemeral, regVars, agentVars, ctlVars, leaseQ,
                   callVars, guardVars, streamVars, persistVars, nameVars, counted>>

\* cancel_session up to self.sessions.lock().
CancelSession(r, sid) ==
    /\ CanEnter(r)
    /\ CanName(sid)
    /\ calls' = calls + 1
    /\ named' = Naming(sid)
    /\ op' = [op EXCEPT ![r] = "cancel"]
    /\ reqSid' = [reqSid EXCEPT ![r] = sid]
    /\ regQueue' = Append(regQueue, Req(r))
    /\ pc' = [pc EXCEPT ![r] = "clock"]
    /\ UNCHANGED <<startedAbsent, rivals, cfgVars, sessions, agentVars, ctlVars, leaseQ, result, retSid,
                   reqAgent, guardVars, streamVars, persistVars, nameVars, counted>>

\* cancel_session: the lookup.  The guard is a temporary of the if-let
\* scrutinee, so it lives until the end of the if-let.
CancelLookup(r) ==
    /\ pc[r] = "clock"
    /\ HoldsRegistry(Req(r))
    /\ IF sessions[reqSid[r]] # 0
         THEN /\ reqAgent' = [reqAgent EXCEPT ![r] = sessions[reqSid[r]]]
              /\ pc' = [pc EXCEPT ![r] = "cancelling"]
              /\ UNCHANGED <<result, regQueue>>
         ELSE /\ result' = [result EXCEPT ![r] = "ok"]
              /\ pc' = [pc EXCEPT ![r] = "done"]
              /\ regQueue' = Tail(regQueue)
              /\ UNCHANGED reqAgent
    /\ UNCHANGED <<calls, named, startedAbsent, rivals, cfgVars, sessions, agentVars, ctlVars, leaseQ, op, reqSid,
                   retSid, guardVars, streamVars, persistVars, nameVars, counted>>

\* Mutant: cancel_session takes the Session out of the registry.
CancelCallRemoves(r, ok) ==
    /\ pc[r] = "cancelling"
    /\ cancelCount' = [cancelCount EXCEPT ![reqAgent[r]] = @ + 1]
    /\ result' = [result EXCEPT ![r] = IF ok THEN "ok" ELSE "cancelerr"]
    /\ sessions' = [sessions EXCEPT ![reqSid[r]] = 0]
    /\ regQueue' = Tail(regQueue)
    /\ pc' = [pc EXCEPT ![r] = "done"]
    /\ UNCHANGED <<calls, named, startedAbsent, rivals, cfgVars, agentVars, termCount, leaseQ,
                   op, reqSid, retSid, reqAgent, guardVars, streamVars, persistVars, nameVars, counted>>

\* cancel_session: session.cancel(..).await? and the end of the if-let.
CancelCall(r, ok) ==
    /\ pc[r] = "cancelling"
    /\ cancelCount' = [cancelCount EXCEPT ![reqAgent[r]] = @ + 1]
    /\ result' = [result EXCEPT ![r] = IF ok THEN "ok" ELSE "cancelerr"]
    /\ regQueue' = Tail(regQueue)
    /\ pc' = [pc EXCEPT ![r] = "done"]
    /\ UNCHANGED <<calls, named, startedAbsent, rivals, cfgVars, sessions, agentVars, termCount, leaseQ, op, reqSid,
                   retSid, reqAgent, guardVars, streamVars, persistVars, nameVars, counted>>

\* session_count up to self.sessions.lock().
SessionCount(r) ==
    /\ CanEnter(r)
    /\ calls' = calls + 1
    /\ op' = [op EXCEPT ![r] = "count"]
    /\ regQueue' = Append(regQueue, Req(r))
    /\ pc' = [pc EXCEPT ![r] = "cntlock"]
    /\ UNCHANGED <<named, reqSid, startedAbsent, rivals, cfgVars, sessions, agentVars, ctlVars,
                   leaseQ, result, retSid, reqAgent, guardVars, streamVars, persistVars,
                   nameVars, counted>>

\* session_count: len() under the guard, which is dropped at the end of the
\* statement.
CountRead(r) ==
    /\ pc[r] = "cntlock"
    /\ HoldsRegistry(Req(r))
    /\ counted' = [counted EXCEPT ![r] = Some(Cardinality(Registered))]
    /\ result' = [result EXCEPT ![r] = "ok"]
    /\ regQueue' = Tail(regQueue)
    /\ pc' = [pc EXCEPT ![r] = "done"]
    /\ UNCHANGED <<calls, named, startedAbsent, rivals, cfgVars, sessions, agentVars, ctlVars,
                   leaseQ, op, reqSid, retSid, reqAgent, guardVars, streamVars, persistVars,
                   nameVars>>

\* ----------------------------------------------- RequestLifecycle
\* RequestLifecycle::new
NewLifecycle(eph) == IF eph THEN "Ephemeral" ELSE "Background"

\* Mutant: the Background variant holds a clone of the controller, not the guard.
GuardOwnsLeaseEphemeralOnly(v) == v = "Ephemeral"

\* Both variants own controller_guard: OwnedMutexGuard<AgentController>, so the
\* controller mutex stays locked for as long as the RequestLifecycle lives.
GuardOwnsLease(v) == v \in {"Background", "Ephemeral"}

\* Mutant: the controller mutex stays with the guard that was dropped.
UnlockNever(q, r) == q

\* The OwnedMutexGuard goes away: the next waiter gets the mutex.
Unlock(q, r) == IF q # << >> /\ Head(q) = r THEN Tail(q) ELSE q

\* Mutant: both variants take the Background arm.
DropArmBackground(v) == "Background"

\* Drop for RequestLifecycle: the arm that `match self` takes.
DropArm(v) == v

\* Mutant: the Ephemeral arm terminates the agent before it saves.
ReleaseTaskTerminateFirst(arm) ==
    IF arm = "Background" THEN <<"get_trace", "save">>
    ELSE <<"terminate", "get_trace", "save">>

\* Mutant: the Ephemeral arm does not terminate the agent.
ReleaseTaskNoTerminate(arm) == <<"get_trace", "save">>

\* Mutant: the Background arm terminates the agent too.
ReleaseTaskAlwaysTerminate(arm) == <<"get_trace", "save", "terminate">>

\* Drop for RequestLifecycle: the body of the task the arm spawns.
ReleaseTask(arm) ==
    IF arm = "Background" THEN <<"get_trace", "save">>
    ELSE <<"get_trace", "save", "terminate">>

\* Mutant: the controller guard is moved into the spawned task.
DropLifecycleKeepsGuard(r) ==
    LET arm == DropArm(variant'[r])
    IN  /\ guard' = [guard EXCEPT ![r] = "dropped"]
        /\ relBg' = [relBg EXCEPT ![r] = @ + (IF arm = "Background" THEN 1 ELSE 0)]
        /\ relEph' = [relEph EXCEPT ![r] = @ + (IF arm = "Ephemeral" THEN 1 ELSE 0)]
        /\ relProg' = [relProg EXCEPT ![r] = ReleaseTask(arm)]
        /\ leaseQ' = leaseQ

\* The RequestLifecycle of r is dropped: Drop::drop runs, then its fields
\* (the controller guard) are dropped.
DropLifecycle(r) ==
    LET arm == DropArm(variant'[r])
    IN  /\ guard' = [guard EXCEPT ![r] = "dropped"]
        /\ relBg' = [relBg EXCEPT ![r] = @ + (IF arm = "Background" THEN 1 ELSE 0)]
        /\ relEph' = [relEph EXCEPT ![r] = @ + (IF arm = "Ephemeral" THEN 1 ELSE 0)]
        /\ relProg' = [relProg EXCEPT ![r] = ReleaseTask(arm)]
        /\ leaseQ' = [leaseQ EXCEPT ![reqAgent[r]] = Unlock(@, r)]

\* AgentSession::handle_request: the controller mutex is acquired, the
\* RequestLifecycle is built around the guard and the trace is sent to the
\* agent.  On success SessionManager::handle_request returns
\* (request_session, session_id); on failure the ? returns the error and the
\* RequestLifecycle is dropped.
Attach(r, ok) ==
    /\ pc[r] = "attach"
    /\ leaseQ[reqAgent[r]] # << >>
    /\ Head(leaseQ[reqAgent[r]]) = r
    /\ LET v == NewLifecycle(agentEph[reqAgent[r]])
       IN  /\ variant' = [variant EXCEPT ![r] = v]
           /\ IF ok
                THEN /\ guard' = [guard EXCEPT ![r] = "live"]
                     /\ leaseQ' = IF GuardOwnsLease(v) THEN leaseQ
                                  ELSE [leaseQ EXCEPT ![reqAgent[r]] = Tail(@)]
                     /\ result' = [result EXCEPT ![r] = "ok"]
                     /\ retSid' = [retSid EXCEPT ![r] = reqSid[r]]
                     /\ pc' = [pc EXCEPT ![r] = "streaming"]
                     /\ UNCHANGED <<relBg, relEph, relProg>>
                ELSE /\ result' = [result EXCEPT ![r] = "sessionerr"]
                     /\ pc' = [pc EXCEPT ![r] = "done"]
                     /\ DropLifecycle(r)
                     /\ UNCHANGED retSid
    /\ UNCHANGED <<calls, named, startedAbsent, rivals, cfgVars, regVars, agentVars, ctlVars, op, reqSid, reqAgent,
                   streamVars, persistVars, nameVars, counted>>

\* The caller is done with the RequestSession, because the response was
\* produced or because its consumer went away: the RequestSession is dropped.
DropRequest(r) ==
    /\ pc[r] = "streaming"
    /\ pc' = [pc EXCEPT ![r] = "done"]
    /\ UNCHANGED variant
    /\ DropLifecycle(r)
    /\ UNCHANGED <<calls, named, startedAbsent, rivals, cfgVars, regVars, agentVars, ctlVars, op, reqSid, result, retSid,
                   reqAgent, streamVars, persistVars, nameVars, counted>>

\* The release task spawned by Drop: get_trace, save_session when the trace
\* came, terminate in the Ephemeral arm.

\* Mutant: save_session is called after a snapshot that failed.
SkipSaveNever(p) == p

\* The Err arm of `match ctrl.get_trace().await`: save_session is not called.
SkipSave(p) == IF p # << >> /\ Head(p) = "save" THEN Tail(p) ELSE p

\* What the task has still to do after the call c returned Err.
\* In both Err arms that is a warn!, and then the rest of the task.
AfterErr(c, rest) == <<"warn">> \o (IF c = "get_trace" THEN SkipSave(rest) ELSE rest)

\* One step of the release task of r: get_trace and save_session return Ok
\* or Err, the result of terminate is dropped (`let _ =`), warn! only logs.
ReleaseStep(r, ok) ==
    /\ relProg[r] # << >>
    /\ LET c == Head(relProg[r])
       IN  /\ c \notin {"get_trace", "save"} => ok
           /\ relProg' = [relProg EXCEPT ![r] = IF ok THEN Tail(@) ELSE AfterErr(c, Tail(@))]
           /\ termCount' = IF c = "terminate"
                             THEN [termCount EXCEPT ![reqAgent[r]] = @ + 1]
                             ELSE termCount
    /\ UNCHANGED <<cfgVars, regVars, agentVars, cancelCount, leaseQ, callVars, guard,
                   variant, relBg, relEph, streamVars, persistVars, nameVars, counted>>

\* The call has returned, its RequestSession is gone and the release task it
\* left behind has ended: nothing of the call remains, its slot is free.
CallOver(r) ==
    /\ pc[r] = "done"
    /\ relProg[r] = << >>
    /\ pc' = [pc EXCEPT ![r] = "idle"]
    /\ op' = [op EXCEPT ![r] = "none"]
    /\ reqSid' = [reqSid EXCEPT ![r] = 0]
    /\ result' = [result EXCEPT ![r] = "none"]
    /\ retSid' = [retSid EXCEPT ![r] = 0]
    /\ reqAgent' = [reqAgent EXCEPT ![r] = 0]
    /\ startedAbsent' = [startedAbsent EXCEPT ![r] = FALSE]
    /\ rivals' = [q \in Slots |-> IF q = r THEN {} ELSE rivals[q] \ {r}]
    /\ agentBy' = [a \in Agents |-> IF agentBy[a] = r THEN 0 ELSE agentBy[a]]
    /\ guard' = [guard EXCEPT ![r] = "none"]
    /\ variant' = [variant EXCEPT ![r] = "none"]
    /\ relBg' = [relBg EXCEPT ![r] = 0]
    /\ relEph' = [relEph EXCEPT ![r] = 0]
    /\ reqName' = [reqName EXCEPT ![r] = None]
    /\ sidGiven' = [sidGiven EXCEPT ![r] = FALSE]
    /\ counted' = [counted EXCEPT ![r] = None]
    /\ UNCHANGED <<calls, named, cfgVars, regVars, nextAgent, agentState, agentSid,
                   agentEph, removedEntry, ctlVars, leaseQ, relProg, streamVars, persistVars,
                   agentProfile>>

\* ------------------------------------------------- SessionPersist
restVars == <<cfgVars, regVars, agentVars, ctlVars, leaseQ, callVars, guardVars, streamVars,
              nameVars, counted>>

\* A file at file_path that is not a SessionData.
Garbage == <<0>>

\* serde_json::to_string_pretty(&session_data): the fields in their order.
ToJson(d) == <<d.session_id, d.created_at, d.updated_at, d.trace>>

\* serde_json::from_str::<SessionData>(&content): Some(data), None for Err.
FromJson(c) ==
    IF Len(c) = 4
      THEN Some([session_id |-> c[1], created_at |-> c[2], updated_at |-> c[3],
                 trace |-> c[4]])
      ELSE None

\* What is in a file while fs::write has not finished.
Partial(c) == SubSeq(c, 1, 2)

\* Mutant: created_at is not taken from the existing record.
StampsFresh(existing, now) == <<now, now>>

\* save_session: (created_at, updated_at) from what is at file_path.
Stamps(existing, now) ==
    IF existing # None
      THEN IF FromJson(existing[1]) # None
             THEN <<FromJson(existing[1])[1].created_at, now>>
             ELSE <<now, now>>
      ELSE <<now, now>>

\* save_session: session_data.
SessionData(sid, existing, now, trace) ==
    [session_id |-> sid, created_at |-> Stamps(existing, now)[1],
     updated_at |-> Stamps(existing, now)[2], trace |-> trace]

\* Mutant: the record is written straight to the session file.
TempPathIsFinal(s, sid) == Final(sid)

\* save_session: temp_path, folder.join("<uuid>.tmp").
TempPath(s, sid) == Temp(s)

\* What load_session and delete_session returned is with their callers.
Returned == loadRes' = NoLoad /\ delRes' = NoDelete

Returns(s, res) ==
    /\ svPc' = [svPc EXCEPT ![s] = "returned"]
    /\ svRes' = [svRes EXCEPT ![s] = res]

\* A release task calls save_session(&sid, trace): the is_enabled() check and
\* create_dir_all.
SaveSession(s, sid, trace, ok) ==
    /\ svPc[s] = "idle"
    /\ \A t \in Savers : t < s => svPc[t] # "idle"
    /\ svSid' = [svSid EXCEPT ![s] = sid]
    /\ svTrace' = [svTrace EXCEPT ![s] = trace]
    /\ IF ~persistEnabled THEN Returns(s, "ok")
       ELSE IF ~ok THEN Returns(s, "err")
       ELSE svPc' = [svPc EXCEPT ![s] = "read"] /\ UNCHANGED svRes
    /\ UNCHANGED <<restVars, persistEnabled, clock, disk, svSeen, svData>>
    /\ Returned

\* save_session: the existing file is read for its created_at and
\* session_data is built with Utc::now().
SaveRead(s) ==
    /\ svPc[s] = "read"
    /\ LET existing == disk[Final(svSid[s])]
       IN  /\ svSeen' = [svSeen EXCEPT ![s] = existing]
           /\ svData' = [svData EXCEPT ![s] =
                            Some(SessionData(svSid[s], existing, clock, svTrace[s]))]
    /\ svPc' = [svPc EXCEPT ![s] = "write"]
    /\ UNCHANGED <<restVars, persistEnabled, clock, disk, svSid, svTrace, svRes>>
    /\ Returned

\* save_session: fs::write(&temp_path, json) creates the file and starts to
\* fill it, or fails.
SaveWrite(s, ok) ==
    /\ svPc[s] = "write"
    /\ IF ok
         THEN /\ disk' = [disk EXCEPT ![TempPath(s, svSid[s])] =
                            Some(Partial(ToJson(svData[s][1])))]
              /\ svPc' = [svPc EXCEPT ![s] = "writing"]
              /\ UNCHANGED svRes
         ELSE /\ Returns(s, "err")
              /\ UNCHANGED disk
    /\ UNCHANGED <<restVars, persistEnabled, clock, svSid, svTrace, svSeen, svData>>
    /\ Returned

\* save_session: fs::write writes the rest and returns, or fails and leaves
\* the file as it is.
SaveWritten(s, ok) ==
    /\ svPc[s] = "writing"
    /\ IF ok
         THEN /\ disk' = [disk EXCEPT ![TempPath(s, svSid[s])] = Some(ToJson(svData[s][1]))]
              /\ svPc' = [svPc EXCEPT ![s] = "rename"]
              /\ UNCHANGED svRes
         ELSE /\ Returns(s, "err")
              /\ UNCHANGED disk
    /\ UNCHANGED <<restVars, persistEnabled, clock, svSid, svTrace, svSeen, svData>>
    /\ Returned

\* Mutant: a rename that fails has removed the session file.
SaveRenameClobbers(s, ok) ==
    /\ svPc[s] = "rename"
    /\ LET from == TempPath(s, svSid[s])
           to == Final(svSid[s])
       IN  IF ok
             THEN /\ disk' = [p \in Paths |->
                                IF p = to THEN disk[from]
                                ELSE IF p = from THEN None
                                ELSE disk[p]]
                  /\ Returns(s, "ok")
             ELSE /\ Returns(s, "err")
                  /\ disk' = [disk EXCEPT ![to] = None]
    /\ UNCHANGED <<restVars, persistEnabled, clock, svSid, svTrace, svSeen, svData>>
    /\ Returned

\* save_session: fs::rename(&temp_path, &file_path) and Ok(()), or the error.
SaveRename(s, ok) ==
    /\ svPc[s] = "rename"
    /\ LET from == TempPath(s, svSid[s])
           to == Final(svSid[s])
       IN  IF ok
             THEN /\ disk' = [p \in Paths |->
                                IF p = to THEN disk[from]
                                ELSE IF p = from THEN None
                                ELSE disk[p]]
                  /\ Returns(s, "ok")
             ELSE /\ Returns(s, "err")
                  /\ UNCHANGED disk
    /\ UNCHANGED <<restVars, persistEnabled, clock, svSid, svTrace, svSeen, svData>>
    /\ Returned

\* The task that runs save_session is stopped where it is.
SaveStop(s) ==
    /\ svPc[s] \in {"read", "write", "writing", "rename"}
    /\ svPc' = [svPc EXCEPT ![s] = "stopped"]
    /\ UNCHANGED <<restVars, persistEnabled, clock, disk, svSid, svTrace, svSeen, svData,
                   svRes>>
    /\ Returned

\* Mutant: a session that has no file loads as an empty record.
LoadResultDefault(enabled, sid, existing) ==
    IF existing = None
      THEN [sid |-> sid, err |-> "none",
            data |-> Some([session_id |-> sid, created_at |-> 0, updated_at |-> 0,
                           trace |-> 0])]
    ELSE IF FromJson(existing[1]) = None THEN [sid |-> sid, err |-> "parse", data |-> None]
    ELSE [sid |-> sid, err |-> "none", data |-> FromJson(existing[1])]

\* load_session
LoadResult(enabled, sid, existing) ==
    IF ~enabled THEN [sid |-> sid, err |-> "disabled", data |-> None]
    ELSE IF existing = None THEN [sid |-> sid, err |-> "notfound", data |-> None]
    ELSE IF FromJson(existing[1]) = None THEN [sid |-> sid, err |-> "parse", data |-> None]
    ELSE [sid |-> sid, err |-> "none", data |-> FromJson(existing[1])]

LoadSession(sid) ==
    /\ loadRes' = LoadResult(persistEnabled, sid, disk[Final(sid)])
    /\ delRes' = NoDelete
    /\ UNCHANGED <<restVars, persistEnabled, clock, disk, saverVars>>

\* delete_session: nothing when persistence is disabled or the file is not
\* there; the error of remove_file is logged.
DeleteSession(sid, ok) ==
    /\ delRes' = [sid |-> sid,
                  did |-> IF ~persistEnabled THEN "disabled"
                          ELSE IF disk[Final(sid)] = None THEN "absent"
                          ELSE IF ok THEN "removed" ELSE "failed"]
    /\ disk' = IF persistEnabled /\ disk[Final(sid)] # None /\ ok
                 THEN [disk EXCEPT ![Final(sid)] = None]
                 ELSE disk
    /\ loadRes' = NoLoad
    /\ UNCHANGED <<restVars, persistEnabled, clock, saverVars>>

\* The environment variable SHAI_SESSION_PERSIST_ENABLE is set.
SetPersistEnable(b) ==
    /\ persistEnabled' = b
    /\ UNCHANGED <<restVars, clock, disk, saverVars>>
    /\ Returned

\* Something else than save_session leaves a file at file_path.
ForeignFile(sid) ==
    /\ disk' = [disk EXCEPT ![Final(sid)] = Some(Garbage)]
    /\ UNCHANGED <<restVars, persistEnabled, clock, saverVars>>
    /\ Returned

\* Time passes.
Tick ==
    /\ clock < MaxTime
    /\ clock' = clock + 1
    /\ UNCHANGED <<restVars, persistEnabled, disk, saverVars>>
    /\ Returned

\* ------------------------------------------- DisconnectionHandler
mgrVars == <<cfgVars, regVars, agentVars, ctlVars, leaseQ, callVars, guardVars, persistVars, nameVars, counted>>

\* A response stream of n events is wrapped: DisconnectionHandler { stream,
\* controller, session_id, completed: false }.
NewHandler(h, n, ctl) ==
    /\ hState[h] = "none"
    /\ \A g \in Handlers : g < h => hState[g] # "none"
    /\ hState' = [hState EXCEPT ![h] = "open"]
    /\ hItems' = [hItems EXCEPT ![h] = n]
    /\ hCtl' = [hCtl EXCEPT ![h] = ctl]
    /\ hOrig' = [hOrig EXCEPT ![h] = ctl]
    /\ UNCHANGED <<mgrVars, completed, hSpawned, hPending, hCancelled>>

\* poll_next: what the inner stream returned is passed on; completed is set
\* when it is Ready(None).
PollNext(done, item) == IF item = None THEN TRUE ELSE done

Poll(h) ==
    /\ hState[h] = "open"
    /\ ~completed[h]
    /\ LET item == IF hItems[h] = 0 THEN None ELSE Some("event")
       IN  completed' = [completed EXCEPT ![h] = PollNext(@, item)]
    /\ hItems' = [hItems EXCEPT ![h] = IF @ = 0 THEN 0 ELSE @ - 1]
    /\ UNCHANGED <<mgrVars, hState, hCtl, hOrig, hSpawned, hPending, hCancelled>>

\* Mutant: completed is not looked at.
DropSpawnsAlways(ctl, done) == IF ctl # None THEN <<ctl[1]>> ELSE << >>

\* Drop for DisconnectionHandler: the controllers moved into cancel tasks.
DropSpawns(ctl, done) == IF ctl # None /\ ~done THEN <<ctl[1]>> ELSE << >>

\* The handler is discarded, after the end of the stream or before it.
DropHandler(h) ==
    /\ hState[h] = "open"
    /\ hState' = [hState EXCEPT ![h] = "dropped"]
    /\ LET sp == DropSpawns(hCtl[h], completed[h])
       IN  /\ hSpawned' = [hSpawned EXCEPT ![h] = @ + Len(sp)]
           /\ hPending' = [hPending EXCEPT ![h] = @ \o sp]
    /\ hCtl' = [hCtl EXCEPT ![h] = None]
    /\ UNCHANGED <<mgrVars, hItems, hOrig, completed, hCancelled>>

\* The task spawned by the handler's drop: controller.cancel().await.
CancelTask(h) ==
    /\ hPending[h] # << >>
    /\ hPending' = [hPending EXCEPT ![h] = Tail(@)]
    /\ hCancelled' = [hCancelled EXCEPT ![h] = Append(@, Head(hPending[h]))]
    /\ UNCHANGED <<mgrVars, hState, hItems, hCtl, hOrig, completed, hSpawned>>

\* ---------------------------------------------------- specifications
\* The session manager, the agents and their watchers, the lifecycle guards.
Next ==
    \/ \E r \in Reqs, s \in {None} \cup {Some(i) : i \in NamedIds} : HandleRequest(r, s, None)
    \/ \E r \in Reqs : Resolve(r)
    \/ \E r \in Reqs : CreateSessionOk(r)
    \/ \E r \in Reqs : CreateSessionErr(r)
    \/ \E r \in Reqs : InsertSession(r)
    \/ \E a \in Agents : AgentExit(a)
    \/ \E a \in Agents : WatcherRemove(a)
    \/ \E b \in BOOLEAN : SetAllowCreation(b)
    \/ \E r \in Reqs, s \in NamedIds : CancelSession(r, s)
    \/ \E r \in Reqs : CancelLookup(r)
    \/ \E r \in Reqs, ok \in BOOLEAN : CancelCall(r, ok)
    \/ \E r \in Reqs, ok \in BOOLEAN : Attach(r, ok)
    \/ \E r \in Reqs : DropRequest(r)
    \/ \E r \in Reqs, ok \in BOOLEAN : ReleaseStep(r, ok)
    \/ \E r \in Reqs : CallOver(r)

Spec == Init /\ [][Next]_vars

\* The same steps for the calls that are in flight together, each followed to
\* its end: no call takes the place of one that is over.
FairNext ==
    \/ \E r \in Reqs, s \in {None} \cup {Some(i) : i \in NamedIds} : HandleRequest(r, s, None)
    \/ \E r \in Reqs : Resolve(r)
    \/ \E r \in Reqs : CreateSessionOk(r)
    \/ \E r \in Reqs : CreateSessionErr(r)
    \/ \E r \in Reqs : InsertSession(r)
    \/ \E a \in Agents : AgentExit(a)
    \/ \E a \in Agents : WatcherRemove(a)
    \/ \E b \in BOOLEAN : SetAllowCreation(b)
    \/ \E r \in Reqs, s \in NamedIds : CancelSession(r, s)
    \/ \E r \in Reqs : CancelLookup(r)
    \/ \E r \in Reqs, ok \in BOOLEAN : CancelCall(r, ok)
    \/ \E r \in Reqs, ok \in BOOLEAN : Attach(r, ok)
    \/ \E r \in Reqs : DropRequest(r)
    \/ \E r \in Reqs, ok \in BOOLEAN : ReleaseStep(r, ok)

\* Fair scheduling: every spawned task and every call inside the manager is
\* run again and again, every await on the agent runtime returns, and an agent
\* that got terminate() leaves its run loop.
TerminatedExit(a) == termCount[a] > 0 /\ AgentExit(a)

Fairness ==
    /\ \A r \in Reqs :
          /\ WF_vars(Resolve(r))
          /\ WF_vars(CreateSessionOk(r) \/ CreateSessionErr(r))
          /\ WF_vars(InsertSession(r))
          /\ WF_vars(CancelLookup(r))
          /\ WF_vars(\E ok \in BOOLEAN : CancelCall(r, ok))
          /\ WF_vars(\E ok \in BOOLEAN : ReleaseStep(r, ok))
    /\ \A a \in Agents :
          /\ WF_vars(TerminatedExit(a))
          /\ WF_vars(WatcherRemove(a))

FairSpec == Init /\ [][FairNext]_vars /\ Fairness

\* Fair scheduling of the requests of one Session: a request that has the
\* controller mutex goes on, and every request that holds a lease finishes or
\* is abandoned.
LeaseFairness ==
    \A r \in Reqs :
        /\ WF_vars(\E ok \in BOOLEAN : Attach(r, ok))
        /\ WF_vars(DropRequest(r))

LeaseSpec == Init /\ [][FairNext]_vars /\ LeaseFairness

\* The registry mutex and all that waits for it: the calls of FairNext and
\* session_count.
RegistryNext ==
    \/ \E r \in Slots, s \in {None} \cup {Some(i) : i \in NamedIds} : HandleRequest(r, s, None)
    \/ \E r \in Slots : Resolve(r)
    \/ \E r \in Slots : CreateSessionOk(r)
    \/ \E r \in Slots : CreateSessionErr(r)
    \/ \E r \in Slots : InsertSession(r)
    \/ \E a \in Agents : AgentExit(a)
    \/ \E a \in Agents : WatcherRemove(a)
    \/ \E r \in Slots, s \in NamedIds : CancelSession(r, s)
    \/ \E r \in Slots : CancelLookup(r)
    \/ \E r \in Slots, ok \in BOOLEAN : CancelCall(r, ok)
    \/ \E r \in Slots : SessionCount(r)
    \/ \E r \in Slots : CountRead(r)
    \/ \E r \in Slots, ok \in BOOLEAN : Attach(r, ok)
    \/ \E r \in Slots : DropRequest(r)

\* Fair scheduling of what takes the registry mutex: every call inside the
\* manager and every agent task is run again and again, and every await on
\* the agent runtime returns.  Nothing is asked of the holders of a lease.
RegistryFairness ==
    /\ \A r \in Slots :
          /\ WF_vars(Resolve(r))
          /\ WF_vars(CreateSessionOk(r) \/ CreateSessionErr(r))
          /\ WF_vars(InsertSession(r))
          /\ WF_vars(CancelLookup(r))
          /\ WF_vars(\E ok \in BOOLEAN : CancelCall(r, ok))
          /\ WF_vars(CountRead(r))
    /\ \A a \in Agents : WF_vars(WatcherRemove(a))

\* The limit only turns calls away at the lookup and the ephemeral flag only
\* picks the arm of Drop; neither decides who holds the registry mutex.  The
\* manager of SessionManagerConfig { max_sessions: None, ephemeral: false }
\* stands for all.
RegistryInit == Init /\ maxSessions = None /\ ~ephemeral

RegistrySpec == RegistryInit /\ [][RegistryNext]_vars /\ RegistryFairness

\* The calls of the manager with the agent_name they carry: none, the name
\* "default", another name.
AgentNames == {None, Some("default"), Some("coder")}

ProfileNext ==
    \/ \E r \in Reqs, s \in {None} \cup {Some(i) : i \in NamedIds}, n \in AgentNames :
          HandleRequest(r, s, n)
    \/ \E r \in Reqs : Resolve(r)
    \/ \E r \in Reqs : CreateSessionOk(r)
    \/ \E r \in Reqs : CreateSessionErr(r)
    \/ \E r \in Reqs : InsertSession(r)
    \/ \E a \in Agents : AgentExit(a)
    \/ \E a \in Agents : WatcherRemove(a)
    \/ \E b \in BOOLEAN : SetAllowCreation(b)
    \/ \E r \in Reqs, s \in NamedIds : CancelSession(r, s)
    \/ \E r \in Reqs : CancelLookup(r)
    \/ \E r \in Reqs, ok \in BOOLEAN : CancelCall(r, ok)
    \/ \E r \in Reqs, ok \in BOOLEAN : Attach(r, ok)
    \/ \E r \in Reqs : DropRequest(r)
    \/ \E r \in Reqs, ok \in BOOLEAN : ReleaseStep(r, ok)

ProfileSpec == Init /\ [][ProfileNext]_vars

\* The disconnection-aware streams.
StreamNext ==
    \/ \E h \in Handlers, n \in 0..MaxItems, c \in {None} \cup {Some(a) : a \in Agents} :
          NewHandler(h, n, c)
    \/ \E h \in Handlers : Poll(h)
    \/ \E h \in Handlers : DropHandler(h)
    \/ \E h \in Handlers : CancelTask(h)

StreamSpec == Init /\ [][StreamNext]_vars

\* The session files: the save_session calls of the release tasks, load_session
\* and delete_session, step by step on the session folder.
PersistNext ==
    \/ \E s \in Savers, sid \in FileIds, t \in 1..MaxTrace, ok \in BOOLEAN :
          SaveSession(s, sid, t, ok)
    \/ \E s \in Savers : SaveRead(s)
    \/ \E s \in Savers, ok \in BOOLEAN : SaveWrite(s, ok)
    \/ \E s \in Savers, ok \in BOOLEAN : SaveWritten(s, ok)
    \/ \E s \in Savers, ok \in BOOLEAN : SaveRename(s, ok)
    \/ \E s \in Savers : SaveStop(s)
    \/ \E sid \in FileIds : LoadSession(sid)
    \/ \E sid \in FileIds, ok \in BOOLEAN : DeleteSession(sid, ok)
    \/ \E b \in BOOLEAN : SetPersistEnable(b)
    \/ \E sid \in FileIds : ForeignFile(sid)
    \/ Tick

\* SessionPersist reads nothing of the manager: one manager, built from
\* SessionManagerConfig { max_sessions: None, ephemeral: false }, stands for all.
PersistInit == Init /\ maxSessions = None /\ ~ephemeral

PersistSpec == PersistInit /\ [][PersistNext]_vars

\* ------------------------------------------------------------ claims
Started(r) == \E a \in Agents : agentBy[a] = r
AgentOf(r) == CHOOSE a \in Agents : agentBy[a] = r
Older(r, q) == IF AgentOf(r) < AgentOf(q) THEN AgentOf(r) ELSE AgentOf(q)
Unremoved(sid) == {a \in Agents : agentSid[a] = sid /\ agentState[a] \in {"running", "exited"}}

\* C1, as claimed: of the concurrent handle_request calls that carry one
\* session_id and start while it is not registered, no two start an agent
\* instance (and insert a Session) each, and a caller that succeeds gets back
\* that session_id.
C1_AsClaimed ==
    \A r \in Reqs :
        /\ \A q \in rivals[r] : ~(Started(r) /\ Started(q))
        /\ result[r] = "ok" /\ op[r] = "handle" => retSid[r] = reqSid[r]

\* C1, amended: two such calls start an agent instance each only when the
\* watcher of the first instance has removed its Session before the second call
\* got the registry; at no instant does the id have two agent instances that
\* have not been removed, the registered Session is one of them, and a caller
\* that succeeds gets back that session_id, bound to an instance started for it.
C1_OneSessionPerId ==
    /\ \A r \in Reqs : \A q \in rivals[r] :
          Started(r) /\ Started(q) => agentState[Older(r, q)] = "removed"
    /\ \A sid \in Ids :
          /\ Cardinality(Unremoved(sid)) <= 1
          /\ sessions[sid] # 0 => sessions[sid] \in Unremoved(sid)
    /\ \A r \in Reqs :
          result[r] = "ok" /\ op[r] = "handle" =>
              retSid[r] = reqSid[r] /\ agentSid[reqAgent[r]] = reqSid[r]

\* Two concurrent calls for one unknown id, one Session: the first started the
\* agent, the second got the same Session, both returned the id.
C1_Witness ==
    \E r, q \in Reqs :
        /\ q \in rivals[r]
        /\ Started(q) /\ ~Started(r)
        /\ result[r] = "ok" /\ result[q] = "ok"
        /\ reqAgent[r] = reqAgent[q]
        /\ retSid[r] = retSid[q]

\* C2: for every agent instance (every Session) at most one live
\* RequestLifecycle exists, and it belongs to the holder of the controller
\* mutex; a request waiting for the mutex has no guard.
LiveGuards(a) == {r \in Reqs : guard[r] = "live" /\ reqAgent[r] = a}

C2_OneGuardPerSession ==
    \A a \in Agents :
        /\ Cardinality(LiveGuards(a)) <= 1
        /\ \A r \in LiveGuards(a) : leaseQ[a] # << >> /\ Head(leaseQ[a]) = r
        /\ \A r \in Reqs : pc[r] = "attach" /\ reqAgent[r] = a => guard[r] = "none"

\* One request holds the guard of a Session while a second request for the same
\* Session waits for the controller mutex.
C2_Witness ==
    \E r, q \in Reqs :
        /\ r # q
        /\ reqAgent[r] # 0 /\ reqAgent[r] = reqAgent[q]
        /\ guard[r] = "live"
        /\ pc[q] = "attach" /\ guard[q] = "none"

\* C3: a dropped guard has run the arm of its own variant once and the other
\* arm never, a guard that is not dropped has run none, the variant is the
\* Session's policy, and a request that got a guard and ended (with an error
\* or by giving up its RequestSession) has dropped it.
C3_ReleaseOncePerGuard ==
    \A r \in Reqs :
        /\ guard[r] = "dropped" =>
              /\ variant[r] = NewLifecycle(agentEph[reqAgent[r]])
              /\ variant[r] = "Background" => relBg[r] = 1 /\ relEph[r] = 0
              /\ variant[r] = "Ephemeral" => relEph[r] = 1 /\ relBg[r] = 0
        /\ guard[r] # "dropped" => relBg[r] = 0 /\ relEph[r] = 0 /\ relProg[r] = << >>
        /\ pc[r] = "done" /\ variant[r] # "none" => guard[r] = "dropped"

\* An Ephemeral guard dropped on the error path and another dropped with the
\* RequestSession of a request that succeeded.
C3_Witness ==
    \E r, q \in Reqs :
        /\ guard[r] = "dropped" /\ result[r] = "sessionerr"
        /\ guard[q] = "dropped" /\ result[q] = "ok"
        /\ variant[r] = "Ephemeral" /\ relEph[r] = 1
        /\ variant[q] = "Ephemeral" /\ relEph[q] = 1

\* C4: a handler that holds a controller and is discarded before its inner
\* stream returned the end of the stream has exactly one cancel() for the
\* agent of that controller, issued or about to be issued by the task it
\* spawned; a handler discarded after the end of the stream has none; a
\* handler that is not discarded has none.
C4_CancelIffNotDrained ==
    \A h \in Handlers :
        LET cancels == hCancelled[h] \o hPending[h]
        IN  /\ hState[h] = "dropped" /\ ~completed[h] /\ hOrig[h] # None =>
                  cancels = <<hOrig[h][1]>> /\ hSpawned[h] = 1
            /\ hState[h] = "dropped" /\ completed[h] => cancels = << >> /\ hSpawned[h] = 0
            /\ hState[h] # "dropped" => cancels = << >> /\ hSpawned[h] = 0
            /\ completed[h] => hItems[h] = 0

\* One handler was discarded before the end of its stream and its cancel()
\* was issued; another was discarded after the end of its stream.
C4_Witness ==
    \E h, g \in Handlers :
        /\ hState[h] = "dropped" /\ ~completed[h] /\ hOrig[h] # None
        /\ hCancelled[h] = <<hOrig[h][1]>>
        /\ hState[g] = "dropped" /\ completed[g] /\ hOrig[g] # None
        /\ hCancelled[g] = << >> /\ hPending[g] = << >>

\* The step in which get_or_create_session of call r looks at the registry.
Resolves(r) == op[r] = "handle" /\ pc[r] = "lock" /\ pc'[r] # "lock"
AtCapacity == maxSessions # None /\ Cardinality(Registered) = maxSessions[1]
NoSessionChange == sessions' = sessions /\ nextAgent' = nextAgent /\ agentState' = agentState

\* C5: with the creation gate open, max_sessions = N and N Sessions registered
\* when the call gets the registry, handle_request for an id that is not
\* registered fails with the capacity error, starts no agent and leaves the
\* registry unchanged, and handle_request for a registered id gets the Session
\* that is registered.
C5_CapacityStep(r) ==
    Resolves(r) /\ AtCapacity /\ allowCreation =>
        /\ NoSessionChange
        /\ IF sessions[reqSid[r]] = 0
             THEN pc'[r] = "done" /\ result'[r] = "capacity" /\ reqAgent'[r] = 0
             ELSE pc'[r] = "attach" /\ result'[r] = "none"
                  /\ reqAgent'[r] = sessions[reqSid[r]]

C6_CountWithinLimit ==
    /\ maxSessions # None => Cardinality(Registered) <= maxSessions[1]
    /\ Cardinality(Registered) = Cardinality({sessions[sid] : sid \in Registered})
    /\ {sessions[sid] : sid \in Registered} \subseteq
          {a \in Agents : agentState[a] \in {"running", "exited"}}

\* Two requests use the one Session of a registry that is at its limit.
C6_Witness ==
    /\ AtCapacity /\ maxSessions[1] >= 1
    /\ \E r, q \in Reqs :
          /\ r # q /\ reqAgent[r] # 0 /\ reqAgent[r] = reqAgent[q]
          /\ sessions[reqSid[r]] = reqAgent[r]
          /\ guard[r] = "live" /\ pc[q] = "attach"

\* C7: while creation is disabled, handle_request for an id that is not
\* registered fails with the creation-disabled error, at capacity too, starts
\* no agent and leaves the registry unchanged; handle_request for a registered
\* id gets the registered Session; set_allow_creation changes no Session.
C7_GateStep(r) ==
    Resolves(r) /\ ~allowCreation =>
        /\ NoSessionChange
        /\ IF sessions[reqSid[r]] = 0
             THEN pc'[r] = "done" /\ result'[r] = "disabled" /\ reqAgent'[r] = 0
             ELSE pc'[r] = "attach" /\ result'[r] = "none"
                  /\ reqAgent'[r] = sessions[reqSid[r]]

C7_CreationDisabled ==
    [][/\ \A r \in Reqs : C7_GateStep(r)
       /\ allowCreation' # allowCreation => NoSessionChange /\ regQueue' = regQueue]_vars

\* With creation disabled and the registry at capacity, one call was refused
\* with the creation-disabled error and another got the registered Session.
C7_Witness ==
    /\ ~allowCreation /\ AtCapacity /\ maxSessions[1] >= 1
    /\ \E r, q \in Reqs :
          /\ result[r] = "disabled"
          /\ result[q] = "ok" /\ ~Started(q) /\ sessions[reqSid[q]] = reqAgent[q]

\* C8: when the agent of a new Session cannot be started, the call returns the
\* error, no Session is inserted, no agent task is spawned, and the registry
\* mutex passes to the next waiter.
C8_FailStep(r) ==
    pc[r] = "building" /\ pc'[r] # "building" /\ nextAgent' = nextAgent =>
        /\ result'[r] = "agentfail" /\ pc'[r] = "done"
        /\ NoSessionChange
        /\ agentBy' = agentBy
        /\ regQueue' = Tail(regQueue)
        /\ \A i \in 1..Len(regQueue') : regQueue'[i] # Req(r)

C8_AgentCreationFailed ==
    [][/\ \A r \in Reqs : C8_FailStep(r)
       /\ \A r \in Reqs : result'[r] = "agentfail" =>
             reqAgent'[r] = 0 /\ ~Started(r)' /\ guard'[r] = "none"]_vars

\* A call failed to start its agent and a later call for the same id created
\* the Session.
C8_Witness ==
    \E r, q \in Reqs :
        /\ result[r] = "agentfail"
        /\ q > r /\ reqSid[q] = reqSid[r] /\ Started(q) /\ result[q] = "ok"
        /\ sessions[reqSid[q]] = reqAgent[q]

\* C10: an agent of a Session that is not ephemeral never gets terminate(); the
\* drop of a Background guard and the steps of its release task issue no
\* cancel() and no terminate() and leave the registry and the agents as they
\* are; a call for a registered id gets the registered Session.
ReleaseActs(r) == guard'[r] = "dropped" /\ (guard[r] # "dropped" \/ relProg'[r] # relProg[r])

C10_BackgroundKeepsAgent ==
    [][/\ \A a \in Agents : ~agentEph[a] => termCount'[a] = 0
       /\ \A r \in Reqs : ReleaseActs(r) /\ variant'[r] = "Background" =>
             /\ cancelCount' = cancelCount /\ termCount' = termCount
             /\ NoSessionChange
       /\ \A r \in Reqs : Resolves(r) /\ sessions[reqSid[r]] # 0 =>
             reqAgent'[r] = sessions[reqSid[r]] /\ NoSessionChange]_vars

\* A Background guard was released and its release task is over, the Session
\* is registered with the same running agent, and a later request holds a
\* guard on that agent.
C10_Witness ==
    \E r, q \in Reqs :
        /\ r # q /\ variant[r] = "Background"
        /\ guard[r] = "dropped" /\ relProg[r] = << >>
        /\ sessions[reqSid[r]] = reqAgent[r] /\ agentState[reqAgent[r]] = "running"
        /\ reqSid[q] = reqSid[r] /\ reqAgent[q] = reqAgent[r] /\ guard[q] = "live"
        /\ termCount[reqAgent[r]] = 0

\* C9: once the guard of a request on an ephemeral Session is dropped, the
\* agent of that Session gets terminate() and, under FairSpec, the watcher
\* removes the Session from the registry.
GuardDropped(a) ==
    \E r \in Reqs : reqAgent[r] = a /\ guard[r] = "dropped" /\ variant[r] = "Ephemeral"

C9_EphemeralTornDown ==
    \A a \in Agents :
        GuardDropped(a)
            ~> (/\ termCount[a] >= 1
                /\ agentState[a] = "removed"
                /\ sessions[agentSid[a]] # a)

\* The guard of an ephemeral Session was dropped, its agent got terminate(),
\* and the watcher removed the entry that bound the id to that agent.
C9_Witness ==
    \E r \in Reqs :
        /\ guard[r] = "dropped" /\ variant[r] = "Ephemeral" /\ result[r] = "ok"
        /\ termCount[reqAgent[r]] = 1
        /\ agentState[reqAgent[r]] = "removed"
        /\ removedEntry[reqAgent[r]] = reqAgent[r]
        /\ sessions[reqSid[r]] = 0

\* The release task of the guard of r has not come past its save_session yet.
Persisting(r) == relProg[r] # << >> /\ Head(relProg[r]) \in {"get_trace", "save"}

\* C11: a request that holds the lease of a background Session finds the trace
\* of every release before it persisted: no guard released on that Session
\* has its get_trace or its save_session still to come.
C11_SavedBeforeNextLease ==
    \A a, b \in Reqs :
        /\ a # b /\ reqAgent[a] # 0 /\ reqAgent[a] = reqAgent[b]
        /\ guard[b] = "live" /\ variant[b] = "Background"
        /\ guard[a] = "dropped" /\ result[a] = "ok"
        => ~Persisting(a)

\* C12: under LeaseSpec every request that waits for the controller mutex of
\* a Session gets it (and then holds its guard, or has failed against the
\* agent and dropped it), whether or not the watcher removes the Session in
\* the meantime.
C12_NoRequestWaitsForever ==
    \A r \in Reqs : (pc[r] = "attach") ~> (pc[r] # "attach" /\ guard[r] # "none")

\* Two requests of one Session whose watcher has removed it: one held the
\* lease and released it, the other got the lease after it and failed against
\* the stopped agent.
C12_Witness ==
    \E r, q \in Reqs :
        /\ r # q /\ reqAgent[r] # 0 /\ reqAgent[r] = reqAgent[q]
        /\ guard[q] = "dropped" /\ result[q] = "ok"
        /\ guard[r] = "dropped" /\ result[r] = "sessionerr"
        /\ agentState[reqAgent[r]] = "removed" /\ sessions[reqSid[r]] = 0

\* C13: an entry of the registry changes only by going away, in the one step
\* in which the watcher of its own agent, whose run loop has exited, holds the
\* registry mutex and removes it; no step replaces an entry; the remove() of
\* a watcher takes out the entry of its own agent, never nothing and never the
\* entry of another Session of the same identifier.
C13_EntryStep(sid) ==
    sessions[sid] # 0 /\ sessions'[sid] # sessions[sid] =>
        LET a == sessions[sid]
        IN  /\ sessions'[sid] = 0
            /\ agentSid[a] = sid
            /\ agentState[a] = "exited" /\ agentState'[a] = "removed"
            /\ HoldsRegistry(Watch(a))

C13_WatcherStep(a) ==
    agentState[a] # "removed" /\ agentState'[a] = "removed" =>
        /\ sessions[agentSid[a]] = a
        /\ removedEntry'[a] = a
        /\ \A sid \in Ids : sid # agentSid[a] => sessions'[sid] = sessions[sid]

C13_RemovedOnceByWatcher ==
    [][/\ \A sid \in Ids : C13_EntryStep(sid)
       /\ \A a \in Agents : C13_WatcherStep(a)]_vars

\* The watcher of the first Session of an identifier has removed it and a
\* later Session of the same identifier is registered.
C13_Witness ==
    \E a, b \in Agents :
        /\ a < b /\ agentSid[a] = agentSid[b]
        /\ agentState[a] = "removed" /\ removedEntry[a] = a
        /\ agentState[b] = "running" /\ sessions[agentSid[b]] = b

\* C14: cancel_session for an identifier that is not registered returns Ok,
\* calls cancel() on no agent and changes nothing of the registry, the agents
\* and the leases; for a registered identifier it calls cancel() once, on the
\* agent of the Session registered under it, and the registry is as before.
C14_AbsentStep(r) ==
    op[r] = "cancel" /\ pc[r] = "clock" /\ pc'[r] # "clock" /\ sessions[reqSid[r]] = 0 =>
        /\ pc'[r] = "done" /\ result'[r] = "ok" /\ reqAgent'[r] = 0
        /\ cancelCount' = cancelCount /\ termCount' = termCount
        /\ NoSessionChange /\ leaseQ' = leaseQ /\ cfgVars' = cfgVars

C14_PresentStep(r) ==
    /\ op[r] = "cancel" /\ pc[r] = "clock" /\ pc'[r] # "clock" /\ sessions[reqSid[r]] # 0 =>
          /\ pc'[r] = "cancelling" /\ reqAgent'[r] = sessions[reqSid[r]]
          /\ cancelCount' = cancelCount /\ NoSessionChange
    /\ pc[r] = "cancelling" /\ pc'[r] # "cancelling" =>
          /\ sessions[reqSid[r]] = reqAgent[r]
          /\ cancelCount' = [cancelCount EXCEPT ![reqAgent[r]] = @ + 1]
          /\ termCount' = termCount
          /\ NoSessionChange /\ pc'[r] = "done"

C14_CancelSession ==
    [][\A r \in Reqs : C14_AbsentStep(r) /\ C14_PresentStep(r)]_vars

\* One cancel_session found nothing and returned Ok, another called cancel()
\* on the agent of a Session that is still registered.
C14_Witness ==
    \E r, q \in Reqs :
        /\ op[r] = "cancel" /\ result[r] = "ok" /\ reqAgent[r] = 0
        /\ op[q] = "cancel" /\ result[q] = "ok" /\ reqAgent[q] # 0
        /\ cancelCount[reqAgent[q]] = 1
        /\ sessions[reqSid[q]] = reqAgent[q]

\* The file f holds a SessionData; the SessionData it holds.
Parses(f) == f # None /\ FromJson(f[1]) # None
Parsed(f) == FromJson(f[1])[1]
\* The step in which the save_session of s renames its file and returns Ok.
Renames(s) == svPc[s] = "rename" /\ svPc'[s] = "returned" /\ svRes'[s] = "ok"

\* C15: with persistence enabled, a save_session that returns Ok leaves a
\* record with its session_id and its trace; when no other writer came between
\* its read of the existing record and its rename, the record keeps the
\* created_at of the existing one and its updated_at is not earlier; and
\* load_session returns the record that is in the file.
C15_SaveStep(s) ==
    Renames(s) =>
        LET old == disk[Final(svSid[s])]
            new == disk'[Final(svSid[s])]
        IN  /\ Parses(new)
            /\ Parsed(new).session_id = svSid[s]
            /\ Parsed(new).trace = svTrace[s]
            /\ svSeen[s] = old /\ Parses(old) =>
                  /\ Parsed(new).created_at = Parsed(old).created_at
                  /\ Parsed(new).updated_at >= Parsed(old).updated_at

C15_LoadStep ==
    loadRes' # NoLoad /\ persistEnabled /\ Parses(disk[Final(loadRes'.sid)]) =>
        /\ loadRes'.err = "none"
        /\ loadRes'.data = Some(Parsed(disk[Final(loadRes'.sid)]))
        /\ disk' = disk

C16_StampsOnDisk ==
    [][\A s \in Savers : Renames(s) =>
          LET old == disk[Final(svSid[s])]
              new == disk'[Final(svSid[s])]
          IN  /\ Parses(new)
              /\ Parsed(new).created_at <= Parsed(new).updated_at
              /\ Parses(old) =>
                    /\ Parsed(new).created_at = Parsed(old).created_at
                    /\ Parsed(new).updated_at >= Parsed(old).updated_at]_vars

\* C17: after every step the session file of an identifier is absent, or is
\* something save_session did not write, or holds the whole session_data of
\* one save_session call for that identifier; load_session fails to parse
\* only what save_session did not write; and no step of a save_session call
\* but its rename changes a session file, so a call stopped before its rename
\* has left the record that was there.
C17_WholeStep(sid) ==
    LET new == disk'[Final(sid)]
    IN  \/ new = None
        \/ new = Some(Garbage)
        \/ /\ Parses(new)
           /\ \E s \in Savers : svSid'[s] = sid /\ svData'[s] = Some(Parsed(new))

C17_SaverStep(s) ==
    svPc'[s] # svPc[s] /\ ~Renames(s) =>
        \A sid \in FileIds : disk'[Final(sid)] = disk[Final(sid)]

C17_FinalFileWhole ==
    [][/\ \A sid \in FileIds : C17_WholeStep(sid)
       /\ \A s \in Savers : C17_SaverStep(s)
       /\ loadRes'.err = "parse" => disk[Final(loadRes'.sid)] = Some(Garbage)]_vars

\* A save_session was stopped with its temporary file fully written, and the
\* session file still holds the record of an earlier save, the one the
\* stopped call had read.
C17_Witness ==
    \E s \in Savers :
        /\ svPc[s] = "stopped" /\ svData[s] # None
        /\ disk[Temp(s)] = Some(ToJson(svData[s][1]))
        /\ Parses(disk[Final(svSid[s])])
        /\ disk[Final(svSid[s])] = svSeen[s]
        /\ disk[Final(svSid[s])] # disk[Temp(s)]

\* C18: with persistence disabled save_session returns Ok at once and no file
\* changes; load_session returns an error and no record when persistence is
\* disabled, when the identifier has no file and when the file does not
\* parse; delete_session for an identifier without a file changes no file and
\* fails at nothing.
C18_SaveStep(s) ==
    svPc[s] = "idle" /\ svPc'[s] # "idle" /\ ~persistEnabled =>
        svPc'[s] = "returned" /\ svRes'[s] = "ok" /\ disk' = disk

C18_LoadStep ==
    loadRes' # NoLoad =>
        LET f == disk[Final(loadRes'.sid)]
        IN  /\ ~persistEnabled => loadRes'.err = "disabled"
            /\ persistEnabled /\ f = None => loadRes'.err = "notfound"
            /\ persistEnabled /\ f # None /\ ~Parses(f) => loadRes'.err = "parse"
            /\ loadRes'.err # "none" => loadRes'.data = None
            /\ disk' = disk

C18_DeleteStep ==
    delRes' # NoDelete /\ disk[Final(delRes'.sid)] = None =>
        disk' = disk /\ delRes'.did \in {"absent", "disabled"}

C18_DisabledAndMissing ==
    [][(\A s \in Savers : C18_SaveStep(s)) /\ C18_LoadStep /\ C18_DeleteStep]_vars

\* With persistence disabled a save_session has returned Ok and left no file,
\* and the load_session of its identifier has just failed.
C18_Witness ==
    \E s \in Savers :
        /\ ~persistEnabled
        /\ svPc[s] = "returned" /\ svRes[s] = "ok" /\ svData[s] = None
        /\ disk[Final(svSid[s])] = None
        /\ loadRes.sid = svSid[s] /\ loadRes.err = "disabled"

\* C19: when get_trace fails in the release task of a guard, save_session is
\* not called for that release and no file changes, the controller mutex is
\* not held by the released request, and in the Ephemeral arm terminate is
\* what the task does after the warn!; when save_session fails the same holds
\* for the mutex and for terminate; the terminate step reaches the agent; and
\* no step of the release task changes what the call returned.
C19_At(r, c) == relProg[r] # << >> /\ Head(relProg[r]) = c /\ relProg'[r] # relProg[r]

C19_Released(r) ==
    /\ guard'[r] = "dropped"
    /\ \A a \in Agents : \A i \in DOMAIN leaseQ'[a] : leaseQ'[a][i] # r

C19_Silent(r) == result'[r] = result[r] /\ retSid'[r] = retSid[r] /\ pc'[r] = pc[r]

C19_TraceFails(r) ==
    C19_At(r, "get_trace") /\ relProg'[r] # << >> /\ Head(relProg'[r]) = "warn" =>
        /\ \A i \in DOMAIN relProg'[r] : relProg'[r][i] # "save"
        /\ disk' = disk
        /\ C19_Released(r)
        /\ variant[r] = "Ephemeral" => relProg'[r] = <<"warn", "terminate">>

C19_SaveFails(r) ==
    C19_At(r, "save") /\ relProg'[r] # << >> /\ Head(relProg'[r]) = "warn" =>
        /\ C19_Released(r)
        /\ variant[r] = "Ephemeral" => relProg'[r] = <<"warn", "terminate">>

C19_Warned(r) ==
    C19_At(r, "warn") /\ variant[r] = "Ephemeral" =>
        relProg'[r] = <<"terminate">>

C19_Terminates(r) ==
    C19_At(r, "terminate") =>
        termCount'[reqAgent[r]] = termCount[reqAgent[r]] + 1 /\ relProg'[r] = << >>

C19_FailedReleaseGoesOn ==
    [][\A r \in Reqs :
          /\ C19_TraceFails(r) /\ C19_SaveFails(r) /\ C19_Warned(r) /\ C19_Terminates(r)
          /\ relProg[r] # << >> => C19_Silent(r)]_vars

\* The snapshot or the save of an Ephemeral guard has just failed: the call
\* has returned its answer, the guard is gone, and terminate is still to come.
C19_Witness ==
    \E r \in Reqs :
        /\ variant[r] = "Ephemeral" /\ guard[r] = "dropped"
        /\ relProg[r] = <<"warn", "terminate">>
        /\ pc[r] = "done" /\ result[r] = "ok"
        /\ \A i \in DOMAIN leaseQ[reqAgent[r]] : leaseQ[reqAgent[r]][i] # r

\* C20: the registry mutex is not held while a call into the agent runtime
\* is in progress: not while get_or_create_session awaits create_session and
\* not while cancel_session awaits session.cancel.
C20_RegistryFreeDuringAgentCall ==
    \A r \in Reqs : pc[r] \in {"building", "cancelling"} => ~HoldsRegistry(Req(r))

\* C21: the step that drops a guard gives the controller mutex to the next
\* waiter, if there is one, and runs nothing of the release task (no
\* get_trace, no save_session, no terminate); and a request that waits for
\* the mutex of an agent while the release task of a dropped guard of that
\* agent has not run gets the mutex, whether that task ever runs or not.
C21_Unrun(r) == guard[r] = "dropped" /\ relProg[r] = ReleaseTask(variant[r])

C21_DropStep(r) ==
    guard[r] # "dropped" /\ guard'[r] = "dropped" =>
        LET a == reqAgent[r]
        IN  /\ leaseQ[a] # << >> /\ Head(leaseQ[a]) = r
            /\ leaseQ'[a] = Tail(leaseQ[a])
            /\ relProg'[r] = ReleaseTask(variant'[r])
            /\ termCount' = termCount /\ disk' = disk

C21_Waits(q) ==
    /\ pc[q] = "attach"
    /\ \E r \in Reqs : r # q /\ reqAgent[r] = reqAgent[q] /\ C21_Unrun(r)

C21_LeaseFreeAtDrop ==
    /\ [][\A r \in Reqs : C21_DropStep(r)]_vars
    /\ \A q \in Reqs : C21_Waits(q) ~> (pc[q] # "attach" /\ guard[q] # "none")

\* A request holds the live guard of an agent while the release task of the
\* guard dropped before it on that agent has run nothing yet.
C21_Witness ==
    \E r, q \in Reqs :
        /\ r # q /\ reqAgent[r] = reqAgent[q]
        /\ C21_Unrun(r)
        /\ guard[q] = "live" /\ Head(leaseQ[reqAgent[q]]) = q

\* C22: an ephemeral Session serves a single request: of the requests in
\* flight, at most one has ever had a RequestLifecycle on the agent of a
\* Session created with ephemeral = true.
C22_EphemeralServesOne ==
    \A a \in Agents :
        agentEph[a] => Cardinality({r \in Reqs : reqAgent[r] = a /\ guard[r] # "none"}) <= 1

\* C23: under FairSpec the Session of every agent whose run loop has exited
\* ends up out of the registry and stays out, whether requests attached to it
\* or not and also when the run loop exits before the creating call has
\* inserted the Session; the agent task whose remove() has run has left no
\* entry of its agent behind, so the remove() came after the insert.
C23_Gone(a) == agentState[a] = "removed" /\ \A sid \in Ids : sessions[sid] # a

C23_StoppedSessionGoesAway ==
    /\ [](\A a \in Agents : agentState[a] = "removed" => C23_Gone(a))
    /\ \A a \in Agents : (agentState[a] = "exited") ~> [](C23_Gone(a))

\* The run loop of an agent has exited while the call that started it has
\* not inserted its Session yet.
C23_Witness ==
    \E a \in Agents, r \in Reqs :
        /\ agentState[a] = "exited" /\ agentBy[a] = r
        /\ pc[r] = "insert" /\ reqAgent[r] = a
        /\ sessions[agentSid[a]] = 0

\* C24: at every instant an identifier has at most one agent instance whose
\* run loop has not exited; an agent instance is started for an identifier
\* only while no Session of that identifier is registered, and then every
\* instance started for it before has left its run loop and its agent task
\* has done its remove().
C24_Running(sid) == {a \in Agents : agentSid[a] = sid /\ agentState[a] = "running"}

C24_StartStep(r) ==
    nextAgent' # nextAgent /\ reqAgent'[r] = nextAgent' =>
        /\ sessions[reqSid[r]] = 0
        /\ agentSid'[nextAgent'] = reqSid[r]
        /\ \A a \in 1..nextAgent : agentSid[a] = reqSid[r] => agentState[a] = "removed"

C24_OneRunningPerId ==
    /\ [](\A sid \in Ids : Cardinality(C24_Running(sid)) <= 1)
    /\ [][\A r \in Reqs : C24_StartStep(r)]_vars

\* An identifier on its second agent instance: the first has been removed,
\* the second is running and registered.
C24_Witness ==
    \E a, b \in Agents :
        /\ a # b /\ agentSid[a] = agentSid[b]
        /\ agentState[a] = "removed" /\ agentState[b] = "running"
        /\ sessions[agentSid[b]] = b /\ C24_Running(agentSid[b]) = {b}

\* C25: a handle_request that finds its identifier in the registry starts no
\* agent instance and no agent task, leaves every entry of the registry as it
\* is, and goes on to the controller mutex of the agent of the Session that
\* is registered, whatever agent_name it carries; no later step of the call
\* starts an agent or touches the entry either.
C25_HitStep(r) ==
    Resolves(r) /\ sessions[reqSid[r]] # 0 =>
        /\ NoSessionChange /\ agentProfile' = agentProfile /\ agentSid' = agentSid
        /\ Registered' = Registered
        /\ reqAgent'[r] = sessions[reqSid[r]]
        /\ pc'[r] = "attach"

C25_Hit(r) == op[r] = "handle" /\ reqAgent[r] # 0 /\ ~Started(r)

C25_AfterHit(r) ==
    C25_Hit(r) /\ pc'[r] # pc[r] => nextAgent' = nextAgent /\ sessions' = sessions

C25_ExistingSessionReused ==
    [][\A r \in Reqs : C25_HitStep(r) /\ C25_AfterHit(r)]_vars

\* A request carrying one agent_name holds the lease of a registered Session
\* whose agent was built, for another call, from another name.
C25_Witness ==
    \E r \in Reqs :
        /\ C25_Hit(r) /\ guard[r] = "live" /\ result[r] = "ok"
        /\ sessions[reqSid[r]] = reqAgent[r]
        /\ agentProfile[reqAgent[r]] # BuilderName(reqName[r])

\* C26: a handle_request without session_id works with a generated
\* identifier that is not registered when the call gets the registry: it
\* takes the creation path, where the closed gate and the reached limit turn
\* it away; the Session it gets is on the agent it started itself, under the
\* generated identifier and with the manager's ephemeral flag; and the
\* identifier it returns is the generated one.
C26_Generated(r) == op[r] = "handle" /\ ~sidGiven[r]

C26_ResolveStep(r) ==
    Resolves(r) /\ C26_Generated(r) =>
        /\ sessions[reqSid[r]] = 0
        /\ IF ~allowCreation THEN pc'[r] = "done" /\ result'[r] = "disabled"
           ELSE IF maxSessions # None /\ Cardinality(Registered) >= maxSessions[1]
                  THEN pc'[r] = "done" /\ result'[r] = "capacity"
           ELSE pc'[r] = "building"

C26_Bound(r) ==
    C26_Generated(r) /\ reqAgent[r] # 0 =>
        /\ agentBy[reqAgent[r]] = r
        /\ agentSid[reqAgent[r]] = reqSid[r]
        /\ agentEph[reqAgent[r]] = ephemeral
        /\ result[r] = "ok" => retSid[r] = reqSid[r]

C27_TerminateStep(a) ==
    termCount'[a] # termCount[a] =>
        /\ termCount'[a] = termCount[a] + 1
        /\ \E r \in Reqs :
              /\ reqAgent[r] = a /\ variant[r] = "Ephemeral" /\ guard[r] = "dropped"
              /\ relProg[r] = <<"terminate">> /\ relProg'[r] = << >>

C27_TerminateLast(r) ==
    \A i \in DOMAIN relProg[r] :
        relProg[r][i] = "terminate" => i = Len(relProg[r]) /\ variant[r] = "Ephemeral"

C27_TerminateAfterSave ==
    /\ [](\A r \in Reqs : C27_TerminateLast(r))
    /\ [][\A a \in Agents : C27_TerminateStep(a)]_vars

\* The release task of an Ephemeral guard has run to its end: the agent, still
\* in its run loop, has got the one terminate() of that release.
C27_Witness ==
    \E r \in Reqs :
        /\ variant[r] = "Ephemeral" /\ guard[r] = "dropped" /\ relEph[r] = 1
        /\ relProg[r] = << >>
        /\ termCount[reqAgent[r]] = 1 /\ agentState[reqAgent[r]] = "running"

\* C28: a request that waits for the controller mutex of a Session is not
\* among the waiters of the registry mutex, and so does not hold it; and
\* while a request waits for a lease that another holds, under RegistrySpec
\* every handle_request, cancel_session and session_count that waits for the
\* registry mutex gets through the registry, and every agent task whose
\* agent has left its run loop does its remove().
C28_WaitsForLease(r) ==
    /\ pc[r] = "attach"
    /\ leaseQ[reqAgent[r]] # << >> /\ Head(leaseQ[reqAgent[r]]) # r

C28_SomeoneWaits == \E r \in Slots : C28_WaitsForLease(r)

C28_OffRegistry(r) == \A i \in DOMAIN regQueue : regQueue[i] # Req(r)

C28_LeaseWaitOffRegistry ==
    /\ [](\A r \in Slots : pc[r] = "attach" => C28_OffRegistry(r))
    /\ \A q \in Slots :
          (C28_SomeoneWaits /\ pc[q] \in {"lock", "clock", "cntlock"})
              ~> (pc[q] \in {"attach", "streaming", "done"} /\ C28_OffRegistry(q))
    /\ \A a \in Agents :
          (C28_SomeoneWaits /\ agentState[a] = "exited") ~> (agentState[a] = "removed")

\* One request holds the lease of a Session, a second one waits for it, and
\* a session_count that came after them has returned the size of the registry.
C28_Witness ==
    \E h, r, q \in Slots :
        /\ h < r /\ r < q
        /\ guard[h] = "live" /\ reqAgent[h] = reqAgent[r]
        /\ C28_WaitsForLease(r)
        /\ op[q] = "count" /\ pc[q] = "done" /\ counted[q] = Some(1)

\* C29: the step in which save_session returns an error (from create_dir_all,
\* from fs::write or from fs::rename) changes no session file, and a session
\* file is changed by a step of save_session only when that step is the
\* rename of a call that returns Ok: a call that returns an error has left the
\* session file of its identifier as it was, a record or no file.
C29_Errs(s) == svPc[s] # "returned" /\ svPc'[s] = "returned" /\ svRes'[s] = "err"

C29_ErrStep(s) ==
    C29_Errs(s) => \A sid \in FileIds : disk'[Final(sid)] = disk[Final(sid)]

C29_SaveWrites(sid) ==
    disk'[Final(sid)] # disk[Final(sid)] /\ svPc' # svPc =>
        \E s \in Savers : svSid[s] = sid /\ Renames(s) /\ ~C29_Errs(s)

C29_ErrorLeavesFile ==
    [][/\ \A s \in Savers : C29_ErrStep(s)
       /\ \A sid \in FileIds : C29_SaveWrites(sid)]_vars

\* A save_session has returned the error of its rename: its temporary file
\* holds its whole record and the session file still holds the record the
\* call had found there.
C29_Witness ==
    \E s \in Savers :
        /\ svPc[s] = "returned" /\ svRes[s] = "err" /\ svData[s] # None
        /\ disk[Temp(s)] = Some(ToJson(svData[s][1]))
        /\ svSeen[s] # None /\ Parses(svSeen[s])
        /\ disk[Final(svSid[s])] = svSeen[s]
        /\ Parsed(svSeen[s]).trace # svTrace[s]

====
